---------------------------- MODULE Spec2Model ----------------------------
(***************************************************************************)
(* State-machine model of the mem_allocs crate:                            *)
(*   - ArenaAllocator (src/src/arena_allocator.rs): a bump allocator over  *)
(*     a fixed byte buffer with a cursor (`offset`);                       *)
(*   - CAllocator / RawCAllocator (src/src/c_allocator.rs): stateless      *)
(*     allocators over the C heap (posix_memalign / memalign / malloc and  *)
(*     free).                                                              *)
(* Machine words are WordBits wide: usize arithmetic is done modulo        *)
(* 2^WordBits, checked_add reports overflow, and unchecked `+` either      *)
(* panics (overflow checks on) or wraps (overflow checks off).             *)
(***************************************************************************)
EXTENDS Integers, Sequences, FiniteSets, TLC

VARIABLES
    capacity,      \* arena: buffer.len(), fixed at construction
    base_ptr,      \* arena: buffer.as_mut_ptr(), the address of byte 0
    offset,        \* arena: the cursor, *self.offset.get()
    issued,        \* arena: regions handed out since construction / last reset
    fresh_offset,  \* cursor of a freshly constructed arena of the same capacity
                   \* that is fed the requests made since the last reset
    hist,          \* arena: shape of the call history since construction
    last,          \* arena: the last call, its arguments and its result
    target,        \* C heap: the branch of cfg_select! the build compiled
    which,         \* C heap: the allocator the program uses
    heap,          \* C heap: the block at each address, allocated or not
    hlast,         \* C heap: the last call of CAllocator / RawCAllocator
    threads,       \* arena shared by two threads: where each thread is in
                   \* its call of allocate, and the locals of that call
    raced          \* arena shared by two threads: what has gone on between
                   \* the calls so far

arena_vars == <<capacity, base_ptr, offset, issued, fresh_offset, hist, last>>

heap_vars == <<target, which, heap, hlast>>

thread_vars == <<threads, raced>>

vars == <<arena_vars, heap_vars, thread_vars>>

---------------------------------------------------------------------------
(* Bounds of the model *)

\* width of usize in bits
WordBits == 4
\* arenas of every capacity 0..MaxCapacity are built (isize::MAX at most)
MaxCapacity == 7
\* request sizes 0..MaxSmallSize (besides the capacity and the extreme sizes)
MaxSmallSize == 1
\* the buffer of a non-empty arena starts at an address in 1..MaxBaseAddr
MaxBaseAddr == 1
\* `issued` remembers the last MaxIssued regions
MaxIssued == 2
\* the C heap has room for MaxBlocks blocks
MaxBlocks == 2
\* heap requests ask for 0, 1 or MaxBlockSize bytes
MaxBlockSize == 2

---------------------------------------------------------------------------
(* usize arithmetic *)

RECURSIVE Pow2(_)
Pow2(n) == IF n = 0 THEN 1 ELSE 2 * Pow2(n - 1)

USIZE_MAX == Pow2(WordBits) - 1
ISIZE_MAX == Pow2(WordBits - 1) - 1

Min(a, b) == IF a <= b THEN a ELSE b
Max(a, b) == IF a >= b THEN a ELSE b

\* a + b in a usize, overflow checks off
wrapping_add(a, b) == (a + b) % (USIZE_MAX + 1)

\* a - b in a usize, overflow checks off
wrapping_sub(a, b) == (a - b + USIZE_MAX + 1) % (USIZE_MAX + 1)

\* usize::checked_add: None on overflow
checked_add(a, b) ==
    IF a + b > USIZE_MAX THEN [some |-> FALSE, val |-> 0]
    ELSE [some |-> TRUE, val |-> a + b]

\* the `&` of two usize values, bit by bit
RECURSIVE BitAndN(_, _, _)
BitAndN(x, y, n) ==
    IF n = 0 THEN 0
    ELSE (IF x % 2 = 1 /\ y % 2 = 1 THEN 1 ELSE 0)
         + 2 * BitAndN(x \div 2, y \div 2, n - 1)

\* x & y for every pair of usize values, computed once
BitAndTable ==
    [x \in 0..USIZE_MAX |-> [y \in 0..USIZE_MAX |-> BitAndN(x, y, WordBits)]]

BitAnd(x, y) == BitAndTable[x][y]

\* the `!` of a usize value
BitNot(x) == USIZE_MAX - x

\* Layout::align(): a power of two that fits a usize
Aligns == { Pow2(k) : k \in 0..(WordBits - 1) }

\* ptr::null_mut()
NULL == 0

---------------------------------------------------------------------------
(* ArenaAllocator *)

\* ArenaAllocator::new(bytes): a buffer of `bytes` bytes and a cursor of 0
new_with_capacity(bytes) == [capacity |-> 0, offset |-> 0]

new(bytes) == [capacity |-> bytes, offset |-> 0]

\* vec![MaybeUninit::<u8>::uninit(); bytes] holds at most isize::MAX bytes
Capacities == 0..Min(MaxCapacity, ISIZE_MAX)

\* where the buffer of a Vec<MaybeUninit<u8>> of `bytes` bytes can start: an
\* empty Vec does not allocate and dangles at the alignment of u8; any other
\* is a 1-aligned heap block
BufferAddrs(bytes) ==
    IF bytes = 0 THEN {1}
    ELSE { a \in 1..MaxBaseAddr : a + bytes <= USIZE_MAX }

\* ArenaAllocator::reset: the new cursor
reset_forgets(cur) == cur

reset(cur) == 0

\* ArenaAllocator::align_up, (offset + align - 1) & !(align - 1), as a build
\* without overflow checks computes it
align_up_past(cur, align) ==
    BitAnd(wrapping_add(cur, align), BitNot(wrapping_sub(align, 1)))

align_down(cur, align) ==
    BitAnd(cur, BitNot(wrapping_sub(align, 1)))

align_up(cur, align) ==
    BitAnd(wrapping_sub(wrapping_add(cur, align), 1),
           BitNot(wrapping_sub(align, 1)))

\* whether `offset + align` of align_up leaves the usize range: a build with
\* overflow checks panics there
align_up_overflows(cur, align) == cur + align > USIZE_MAX

AllocError == [res |-> "Err", start |-> 0, len |-> 0]

\* `end` of allocate: aligned_offset.checked_add(layout.size())
end_wrapping(aligned_offset, size) ==
    [some |-> TRUE, val |-> wrapping_add(aligned_offset, size)]

end_of(aligned_offset, size) == checked_add(aligned_offset, size)

\* the bounds test of allocate: end > buffer.len()
out_of_space_ge(end, len) == end >= len

out_of_space(end, len) == end > len

\* the cursor allocate stores on success
bump_no_size(aligned_offset, end) == aligned_offset

bump(aligned_offset, end) == end

\* <ArenaAllocator as Allocator>::allocate in a state with cursor `cur` and a
\* buffer of `cap` bytes: the result, the region (as an offset into the
\* buffer and a length) and the cursor after the call
allocate_bump_first(cur, cap, size, align, overflow_checks) ==
    IF align_up_overflows(cur, align) /\ overflow_checks
    THEN [res |-> "Panic", start |-> 0, len |-> 0, offset |-> cur]
    ELSE LET aligned_offset == align_up(cur, align)
             end == end_of(aligned_offset, size)
         IN  IF ~end.some
             THEN AllocError @@ [offset |-> cur]
             ELSE IF out_of_space(end.val, cap)
             THEN AllocError @@ [offset |-> bump(aligned_offset, end.val)]
             ELSE [res |-> "Ok", start |-> aligned_offset, len |-> size,
                   offset |-> bump(aligned_offset, end.val)]

allocate(cur, cap, size, align, overflow_checks) ==
    IF align_up_overflows(cur, align) /\ overflow_checks
    THEN [res |-> "Panic", start |-> 0, len |-> 0, offset |-> cur]
    ELSE LET aligned_offset == align_up(cur, align)
             end == end_of(aligned_offset, size)
         IN  IF ~end.some
             THEN AllocError @@ [offset |-> cur]
             ELSE IF out_of_space(end.val, cap)
             THEN AllocError @@ [offset |-> cur]
             ELSE [res |-> "Ok", start |-> aligned_offset, len |-> size,
                   offset |-> bump(aligned_offset, end.val)]

\* the sizes a caller asks for: small ones, the whole buffer, and the extremes
\* of usize (Layout::from_size_align_unchecked builds a layout of any size)
Sizes == (0..MaxSmallSize) \cup {capacity, USIZE_MAX}

\* the regions issued since the last reset, the newest MaxIssued of them
Remember(regions, r) ==
    IF Len(regions) < MaxIssued THEN Append(regions, r)
    ELSE Append(Tail(regions), r)

\* how the call history since construction continues with a call
\*   Fresh: no call yet;  Filled: one call, allocate of `capacity` bytes;
\*   AfterFilled: that call and others, no reset;  Used: other calls, no reset;
\*   Reset: reset has been called
HistAfter(op, size) ==
    CASE op = "reset" \/ hist = "Reset" -> "Reset"
      [] hist = "Fresh" /\ op \in {"allocate", "alloc"} /\ size = capacity
             -> "Filled"
      [] hist \in {"Filled", "AfterFilled"} -> "AfterFilled"
      [] OTHER -> "Used"

NoRegion == [res |-> "Unit", start |-> 0, len |-> 0]

NoCall == [op |-> "new", size |-> 0, align |-> 1, res |-> "Unit",
           start |-> 0, len |-> 0, ptr |-> 0, fresh |-> NoRegion]

ArenaInit ==
    /\ \E bytes \in Capacities :
         /\ capacity = new(bytes).capacity
         /\ offset = new(bytes).offset
         /\ fresh_offset = new(bytes).offset
         /\ base_ptr \in BufferAddrs(bytes)
         /\ last = [NoCall EXCEPT !.size = bytes]
    /\ issued = << >>
    /\ hist = "Fresh"

\* one call of allocate(layout), or of GlobalAlloc::alloc(layout), which maps
\* the result of allocate to a pointer or to null
\* what allocate(layout) does on this arena and on the fresh one, in a build
\* with overflow checks and in one without
Outcomes(size, align) ==
    { << allocate(offset, capacity, size, align, overflow_checks),
         allocate(fresh_offset, capacity, size, align, overflow_checks) >> :
      overflow_checks \in BOOLEAN }

\* the map_or_else of GlobalAlloc::alloc: null for Err, the address of the
\* region for Ok
map_or_else_unwrap(r, base) == base + r.start

map_or_else(r, base) == IF r.res = "Ok" THEN base + r.start ELSE NULL

AllocateCall(op, size, align, outcome) ==
    LET r == outcome[1]
        f == outcome[2]
    IN  /\ offset' = r.offset
        /\ fresh_offset' = f.offset
        /\ issued' = IF r.res = "Ok"
                     THEN Remember(issued, [start |-> r.start, len |-> r.len])
                     ELSE issued
        /\ hist' = HistAfter(op, size)
        /\ last' = [op |-> op, size |-> size, align |-> align,
                    res |-> r.res, start |-> r.start, len |-> r.len,
                    ptr |-> IF op = "alloc" THEN map_or_else(r, base_ptr)
                            ELSE IF r.res = "Ok" THEN base_ptr + r.start
                            ELSE 0,
                    fresh |-> [res |-> f.res, start |-> f.start,
                               len |-> f.len]]
        /\ UNCHANGED <<capacity, base_ptr>>
        /\ UNCHANGED <<heap_vars, thread_vars>>

Allocate ==
    \E size \in Sizes, align \in Aligns :
        \E outcome \in Outcomes(size, align) :
            AllocateCall("allocate", size, align, outcome)

Alloc ==
    \E size \in Sizes, align \in Aligns :
        \E outcome \in Outcomes(size, align) :
            AllocateCall("alloc", size, align, outcome)

\* the cursor after deallocate / dealloc of region r: the body is empty
deallocate_rewinds(cur, r) ==
    IF r.start + r.len = cur THEN r.start ELSE cur

deallocate(cur, r) == cur

\* <ArenaAllocator as Allocator>::deallocate and GlobalAlloc::dealloc of a
\* region issued earlier
DeallocateCall(op, r) ==
    /\ offset' = deallocate(offset, r)
    /\ last' = [op |-> op, size |-> r.len, align |-> 1, res |-> "Unit",
                start |-> r.start, len |-> r.len, ptr |-> base_ptr + r.start,
                fresh |-> NoRegion]
    /\ hist' = HistAfter(op, r.len)
    /\ UNCHANGED <<capacity, base_ptr, issued, fresh_offset>>
    /\ UNCHANGED <<heap_vars, thread_vars>>

Deallocate ==
    \E i \in 1..Len(issued) : DeallocateCall("deallocate", issued[i])

Dealloc ==
    \E i \in 1..Len(issued) : DeallocateCall("dealloc", issued[i])

\* ArenaAllocator::reset; the arena `fresh_offset` follows is built anew.
\* `last` keeps the request and the result of the call that reset follows
Reset ==
    /\ offset' = reset(offset)
    /\ fresh_offset' = new(capacity).offset
    /\ issued' = << >>
    /\ hist' = HistAfter("reset", 0)
    /\ last' = [NoCall EXCEPT !.op = "reset", !.size = last.size,
                              !.align = last.align, !.res = last.res]
    /\ UNCHANGED <<capacity, base_ptr>>
    /\ UNCHANGED <<heap_vars, thread_vars>>

---------------------------------------------------------------------------
(* One ArenaAllocator called from two threads with no synchronization: the
   cursor is an UnsafeCell<usize>, which allocate reads (in align_up) and
   writes (the store of `end`) in two steps, and reset writes in one.  The ghosts
   fresh_offset, hist and last of the sequential specifications are not
   followed here. *)

Threads == {"t1", "t2"}

\* the layouts the threads ask for
RaceSizes == 1..MaxSmallSize

RaceAligns == {1, 2}

\* a thread outside allocate
Idle == [pc |-> "idle", aligned_offset |-> 0, end |-> 0, stale |-> FALSE]

\* whether a thread other than t is between the read and the write of allocate
OtherInFlight(t) == \E u \in Threads \ {t} : threads[u].pc = "checked"

ThreadsIdle ==
    /\ threads = [t \in Threads |-> Idle]
    /\ raced = [interleaved |-> FALSE, reset_lost |-> FALSE]

\* allocate up to the bounds test: the thread reads the cursor, computes
\* aligned_offset and end, and returns AllocError at once when the test fails
RaceRead(t) ==
    /\ threads[t].pc = "idle"
    /\ \E size \in RaceSizes, align \in RaceAligns, overflow_checks \in BOOLEAN :
         LET r == allocate(offset, capacity, size, align, overflow_checks)
         IN  threads' = [threads EXCEPT ![t] =
                 IF r.res = "Ok"
                 THEN [pc |-> "checked", aligned_offset |-> r.start,
                       end |-> r.start + r.len, stale |-> FALSE]
                 ELSE Idle]
    /\ raced' = [raced EXCEPT !.interleaved = @ \/ OtherInFlight(t)]
    /\ UNCHANGED <<arena_vars, heap_vars>>

\* the rest of allocate: `*offset = end`, and the region is returned
RaceWrite(t) ==
    /\ threads[t].pc = "checked"
    /\ offset' = bump(threads[t].aligned_offset, threads[t].end)
    /\ issued' = Remember(issued,
                     [start |-> threads[t].aligned_offset,
                      len |-> threads[t].end - threads[t].aligned_offset])
    /\ threads' = [threads EXCEPT ![t] = Idle]
    /\ raced' = [raced EXCEPT !.reset_lost = @ \/ threads[t].stale]
    /\ UNCHANGED <<capacity, base_ptr, fresh_offset, hist, last>>
    /\ UNCHANGED heap_vars

\* reset by a thread that is outside allocate; what the other thread read
\* before is stale from here on
RaceReset(t) ==
    /\ threads[t].pc = "idle"
    /\ offset' = reset(offset)
    /\ issued' = << >>
    /\ threads' = [u \in Threads |->
                     IF threads[u].pc = "checked"
                     THEN [threads[u] EXCEPT !.stale = TRUE]
                     ELSE threads[u]]
    /\ raced' = [raced EXCEPT !.interleaved = @ \/ OtherInFlight(t)]
    /\ UNCHANGED <<capacity, base_ptr, fresh_offset, hist, last>>
    /\ UNCHANGED heap_vars

RaceNext ==
    \E t \in Threads :
        \/ RaceRead(t)
        \/ RaceWrite(t)
        \/ RaceReset(t)

---------------------------------------------------------------------------
(* CAllocator and RawCAllocator over the C heap *)

\* mem::size_of::<usize>(), in the bytes of this model's machine
SizeOfUsize == 2

\* the alignment malloc gives every block
MallocAlign == SizeOfUsize

\* the addresses the C library hands out
HeapPtrs == { MallocAlign * k : k \in 1..MaxBlocks }

\* the alignments heap requests ask for: below and above the pointer size
HeapAligns == {1, 2 * SizeOfUsize}

\* the content of a byte: 0, a value 1..MaxBlockSize the caller wrote, or
\* not initialized
Uninit == MaxBlockSize + 1

NoBlock == [live |-> FALSE, size |-> 0, data |-> << >>]

\* a block as malloc / posix_memalign / memalign returns it
NewBlock(size) ==
    [live |-> TRUE, size |-> size, data |-> [i \in 1..size |-> Uninit]]

\* what posix_memalign(&temp_ptr, alignment, size), memalign(alignment, size)
\* or malloc(size) may answer: a failure (a nonzero status, temp_ptr left
\* null; or a null result), an unused address of the alignment asked for,
\* and for size 0 also success with a null pointer
PrimitiveAnswers(prim, size, alignment) ==
    { [call |-> prim, size |-> size, alignment |-> alignment,
       status |-> IF prim = "posix_memalign" THEN 12 ELSE 0, ptr |-> NULL] }
    \cup
    { [call |-> prim, size |-> size, alignment |-> alignment,
       status |-> 0, ptr |-> p] :
        p \in { q \in HeapPtrs : ~heap[q].live /\ q % alignment = 0 } }
    \cup
    (IF size = 0
     THEN { [call |-> prim, size |-> size, alignment |-> alignment,
             status |-> 0, ptr |-> NULL] }
     ELSE { })

\* the heap after the primitive answered `a`
Allocated(h, a) ==
    IF a.status = 0 /\ a.ptr # NULL
    THEN [h EXCEPT ![a.ptr] = NewBlock(a.size)]
    ELSE h

\* free(ptr)
Freed(h, p) == IF p = NULL THEN h ELSE [h EXCEPT ![p] = NoBlock]

\* the primitive allocate_memory calls in this build
AlignedPrimitive ==
    IF target = "posix" THEN "posix_memalign" ELSE "memalign"

\* allocate_memory(size, alignment), given the primitive's answer: the
\* pointer, or AllocError
allocate_memory(a) ==
    IF a.call = "posix_memalign" /\ a.status # 0 THEN [ok |-> FALSE, ptr |-> NULL]
    ELSE IF a.ptr = NULL THEN [ok |-> FALSE, ptr |-> NULL]
    ELSE [ok |-> TRUE, ptr |-> a.ptr]

\* the alignment CAllocator asks the primitive for
c_alignment_as_given(align) == align

c_alignment(align) == Max(align, SizeOfUsize)

\* the primitive request behind allocate / alloc, and its possible answers
Request(size, align) ==
    IF which = "CAllocator"
    THEN PrimitiveAnswers(AlignedPrimitive, size, c_alignment(align))
    ELSE PrimitiveAnswers("malloc", size, MallocAlign)

\* the pointer alloc returns (null on failure), given the primitive's answer
alloc(a) ==
    IF which = "CAllocator"
    THEN (IF allocate_memory(a).ok THEN allocate_memory(a).ptr ELSE NULL)
    ELSE a.ptr

\* ptr::write_bytes(p, 0, size)
write_bytes_short(h, p, size) ==
    [h EXCEPT ![p].data = [i \in 1..Len(@) |-> IF i < size THEN 0 ELSE @[i]]]

write_bytes(h, p, size) ==
    [h EXCEPT ![p].data = [i \in 1..Len(@) |-> IF i <= size THEN 0 ELSE @[i]]]

\* ptr::copy_nonoverlapping(old_ptr, new_ptr, copy_size)
copy_reversed(h, old_ptr, new_ptr, copy_size) ==
    [h EXCEPT ![old_ptr].data =
        [i \in 1..Len(@) |-> IF i <= copy_size THEN h[new_ptr].data[i] ELSE @[i]]]

copy_nonoverlapping(h, old_ptr, new_ptr, copy_size) ==
    [h EXCEPT ![new_ptr].data =
        [i \in 1..Len(@) |-> IF i <= copy_size THEN h[old_ptr].data[i] ELSE @[i]]]

Allocators == {"CAllocator", "RawCAllocator"}

\* the sizes heap requests ask for; GlobalAlloc takes no zero-size layout
BlockSizes == {0, 1, MaxBlockSize}

NonZeroBlockSizes == BlockSizes \ {0}

NoHeapCall == [op |-> "none", size |-> 0, align |-> 1,
               ptr |-> NULL, res |-> "Unit", ret |-> NULL, len |-> 0,
               events |-> << >>]

HeapUnused ==
    /\ target = "posix"
    /\ which = "CAllocator"
    /\ heap = [p \in HeapPtrs |-> NoBlock]
    /\ hlast = NoHeapCall

ArenaUnused ==
    /\ capacity = 0
    /\ base_ptr = 1
    /\ offset = 0
    /\ fresh_offset = 0
    /\ issued = << >>
    /\ hist = "Fresh"
    /\ last = NoCall

\* a build for one of the targets, and a program that uses one allocator
HeapInit ==
    /\ target \in {"posix", "other"}
    /\ which \in Allocators
    /\ heap = [p \in HeapPtrs |-> NoBlock]
    /\ hlast = NoHeapCall

\* <CAllocator as Allocator>::allocate and <RawCAllocator as Allocator>::allocate
HeapAllocate ==
    \E size \in BlockSizes, align \in HeapAligns :
      \E a \in Request(size, align) :
        LET allocated_ptr == alloc(a)
        IN  /\ heap' = Allocated(heap, a)
            /\ hlast' = [NoHeapCall EXCEPT
                 !.op = "allocate", !.size = size, !.align = align,
                 !.res = IF allocated_ptr = NULL THEN "Err" ELSE "Ok",
                 !.ret = allocated_ptr,
                 !.len = IF allocated_ptr = NULL THEN 0 ELSE size,
                 !.events = << a >>]
            /\ UNCHANGED <<target, which>>
            /\ UNCHANGED <<arena_vars, thread_vars>>

\* Allocator::deallocate and GlobalAlloc::dealloc of a block the caller owns
HeapDeallocate ==
    \E op \in {"deallocate", "dealloc"} :
      \E p \in { q \in HeapPtrs : heap[q].live } :
        /\ heap' = Freed(heap, p)
        /\ hlast' = [NoHeapCall EXCEPT
             !.op = op, !.size = heap[p].size, !.ptr = p,
             !.events = << [call |-> "free", ptr |-> p] >>]
        /\ UNCHANGED <<target, which>>
        /\ UNCHANGED <<arena_vars, thread_vars>>

\* GlobalAlloc::alloc (zeroed = FALSE) and GlobalAlloc::alloc_zeroed
HeapAlloc ==
    \E size \in NonZeroBlockSizes, align \in HeapAligns :
      \E zeroed \in BOOLEAN, a \in Request(size, align) :
        LET allocated_ptr == alloc(a)
            written == zeroed /\ allocated_ptr # NULL
        IN  /\ heap' = IF written
                       THEN write_bytes(Allocated(heap, a), allocated_ptr, size)
                       ELSE Allocated(heap, a)
            /\ hlast' = [NoHeapCall EXCEPT
                 !.op = IF zeroed THEN "alloc_zeroed" ELSE "alloc",
                 !.size = size, !.align = align,
                 !.res = IF allocated_ptr = NULL THEN "Null" ELSE "Ptr",
                 !.ret = allocated_ptr,
                 !.events = << a >> \o
                    (IF written
                     THEN << [call |-> "write_bytes", ptr |-> allocated_ptr,
                              count |-> size] >>
                     ELSE << >>)]
            /\ UNCHANGED <<target, which>>
            /\ UNCHANGED <<arena_vars, thread_vars>>

\* the body of GlobalAlloc::realloc(old_ptr, old_layout, new_size) on heap `h`,
\* old_layout.size() being old_size and `a` the primitive's answer to the
\* request self.alloc(new_layout) makes: the pointer returned, the heap after
\* the call and the calls made
realloc_frees_on_failure(h, old_ptr, old_size, new_size, a) ==
    LET new_ptr == alloc(a)
        copy_size == Min(old_size, new_size)
    IN  IF new_ptr # NULL
        THEN [ret |-> new_ptr,
              heap |-> Freed(copy_nonoverlapping(Allocated(h, a),
                                 old_ptr, new_ptr, copy_size), old_ptr),
              events |-> << a,
                            [call |-> "copy_nonoverlapping", src |-> old_ptr,
                             dst |-> new_ptr, count |-> copy_size],
                            [call |-> "free", ptr |-> old_ptr] >>]
        ELSE [ret |-> new_ptr,
              heap |-> Freed(Allocated(h, a), old_ptr),
              events |-> << a, [call |-> "free", ptr |-> old_ptr] >>]

realloc_frees_new(h, old_ptr, old_size, new_size, a) ==
    LET new_ptr == alloc(a)
        copy_size == Min(old_size, new_size)
    IN  IF new_ptr # NULL
        THEN [ret |-> new_ptr,
              heap |-> Freed(copy_nonoverlapping(Allocated(h, a),
                                 old_ptr, new_ptr, copy_size), new_ptr),
              events |-> << a,
                            [call |-> "copy_nonoverlapping", src |-> old_ptr,
                             dst |-> new_ptr, count |-> copy_size],
                            [call |-> "free", ptr |-> new_ptr] >>]
        ELSE [ret |-> new_ptr, heap |-> Allocated(h, a), events |-> << a >>]

realloc(h, old_ptr, old_size, new_size, a) ==
    LET new_ptr == alloc(a)
        copy_size == Min(old_size, new_size)
    IN  IF new_ptr # NULL
        THEN [ret |-> new_ptr,
              heap |-> Freed(copy_nonoverlapping(Allocated(h, a),
                                 old_ptr, new_ptr, copy_size), old_ptr),
              events |-> << a,
                            [call |-> "copy_nonoverlapping", src |-> old_ptr,
                             dst |-> new_ptr, count |-> copy_size],
                            [call |-> "free", ptr |-> old_ptr] >>]
        ELSE [ret |-> new_ptr, heap |-> Allocated(h, a), events |-> << a >>]

\* GlobalAlloc::realloc(old_ptr, old_layout, new_size) of a block the caller
\* owns, old_layout having the size of that block (not 0, as GlobalAlloc asks)
HeapRealloc ==
    \E align \in HeapAligns, new_size \in NonZeroBlockSizes :
      \E old_ptr \in { q \in HeapPtrs : heap[q].live /\ heap[q].size > 0 } :
        \E a \in Request(new_size, align) :
          LET r == realloc(heap, old_ptr, heap[old_ptr].size, new_size, a)
          IN  /\ heap' = r.heap
              /\ hlast' = [NoHeapCall EXCEPT
                   !.op = "realloc",
                   !.size = new_size, !.align = align, !.ptr = old_ptr,
                   !.res = IF r.ret = NULL THEN "Null" ELSE "Ptr",
                   !.ret = r.ret,
                   !.events = r.events]
              /\ UNCHANGED <<target, which>>
              /\ UNCHANGED <<arena_vars, thread_vars>>

\* the caller writes 1, 2, ... into a block it owns
HeapFill ==
    \E p \in { q \in HeapPtrs : heap[q].live } :
        /\ heap' = [heap EXCEPT ![p].data = [i \in 1..Len(@) |-> i]]
        /\ hlast' = [NoHeapCall EXCEPT !.op = "fill", !.ptr = p]
        /\ UNCHANGED <<target, which>>
        /\ UNCHANGED <<arena_vars, thread_vars>>

HeapNext ==
    \/ HeapAllocate
    \/ HeapDeallocate
    \/ HeapAlloc
    \/ HeapRealloc
    \/ HeapFill

\* the two C allocators; no arena is used
HeapOnlyInit == HeapInit /\ ArenaUnused /\ ThreadsIdle

HeapSpec == HeapOnlyInit /\ [][HeapNext]_vars

\* an arena; the C heap is not used
Init == ArenaInit /\ HeapUnused /\ ThreadsIdle

\* the arena used through the Allocator trait
Next ==
    \/ Allocate
    \/ Deallocate
    \/ Reset

Spec == Init /\ [][Next]_vars

\* the arena used through the GlobalAlloc trait
GlobalNext ==
    \/ Alloc
    \/ Dealloc
    \/ Reset

GlobalSpec == Init /\ [][GlobalNext]_vars

\* a program that allocates and frees through one allocator, an arena
\* (through GlobalAlloc) or CAllocator (through GlobalAlloc and Allocator):
\* it stays with the allocator of its first call
AdapterInit ==
    \/ ArenaInit /\ HeapUnused /\ ThreadsIdle
    \/ HeapInit /\ which = "CAllocator" /\ ArenaUnused /\ ThreadsIdle

ArenaInUse == hlast = NoHeapCall

HeapInUse == last = NoCall

AdapterNext ==
    \/ ArenaInUse /\ Alloc
    \/ ArenaInUse /\ Dealloc
    \/ ArenaInUse /\ Reset
    \/ HeapInUse /\ HeapAllocate
    \/ HeapInUse /\ HeapDeallocate
    \/ HeapInUse /\ HeapAlloc

AdapterSpec == AdapterInit /\ [][AdapterNext]_vars

\* the arena shared by two threads
RaceSpec == Init /\ [][RaceNext]_vars

\* the arena used through the Allocator trait, its regions given back through
\* either trait
ReleaseNext ==
    \/ Allocate
    \/ Deallocate
    \/ Dealloc
    \/ Reset

ReleaseSpec == Init /\ [][ReleaseNext]_vars

---------------------------------------------------------------------------
(* Properties of ArenaAllocator *)

RegionEnd(r) == r.start + r.len

\* C1: the regions issued since construction or the last reset are pairwise
\* non-overlapping, appear in non-decreasing address order, and each lies
\* inside [0, cursor), hence inside the buffer [0, capacity).
C1_MonotonicRegions ==
    /\ offset <= capacity
    /\ \A i \in 1..Len(issued) : RegionEnd(issued[i]) <= offset
    /\ \A i, j \in 1..Len(issued) :
         i < j => /\ issued[i].start <= issued[j].start
                  /\ RegionEnd(issued[i]) <= issued[j].start

\* two non-empty regions with padding between them, then a failed allocate
C1_Witness ==
    /\ Len(issued) = 2
    /\ issued[1].len > 0
    /\ issued[2].len > 0
    /\ RegionEnd(issued[1]) < issued[2].start
    /\ last.op = "allocate"
    /\ last.res = "Err"

\* C2: the address of every region allocate returns, base_ptr plus the chosen
\* offset, is a multiple of the requested alignment.
C2_AlignedAddress ==
    (last.op = "allocate" /\ last.res = "Ok") => last.ptr % last.align = 0

\* C3: an allocate that returns an error leaves the cursor, the capacity and
\* the issued regions as they were (the fresh arena fed the same requests
\* fails too), so that any later request is served as it would have been
\* without the failed call.
C3_FailureMutatesNothing ==
    [][(last'.op = "allocate" /\ last'.res = "Err")
        => /\ offset' = offset
           /\ capacity' = capacity
           /\ base_ptr' = base_ptr
           /\ issued' = issued
           /\ fresh_offset' = fresh_offset]_vars

\* a request failed although space remained behind an issued region
C3_Witness ==
    /\ last.op = "allocate"
    /\ last.res = "Err"
    /\ last.size >= 1
    /\ last.size <= capacity
    /\ Len(issued) >= 1
    /\ 0 < offset
    /\ offset < capacity

\* C4: on a fresh arena allocate(capacity, align) succeeds at offset 0 for
\* every alignment, and every allocate of at least one byte that follows
\* it without a reset fails.
C4_CapacityBoundary ==
    /\ hist = "Filled"
         => /\ last.res = "Ok"
            /\ last.start = 0
            /\ last.len = capacity
            /\ offset = capacity
    /\ (hist = "AfterFilled" /\ last.op = "allocate" /\ last.size >= 1)
         => last.res = "Err"

\* allocate(1, 1) failed on an arena filled by its first call
C4_Witness ==
    /\ hist = "AfterFilled"
    /\ capacity > 0
    /\ last.op = "allocate"
    /\ last.size = 1
    /\ last.align = 1
    /\ last.res = "Err"

\* C5: an arena that was reset serves every request sequence as a freshly
\* constructed arena of the same capacity serves it: same cursor, same
\* outcomes, same offsets.
C5_ResetReplays ==
    /\ offset = fresh_offset
    /\ last.op = "allocate"
         => last.fresh = [res |-> last.res, start |-> last.start,
                          len |-> last.len]

\* after a reset, a second region was issued behind padding
C5_Witness ==
    /\ hist = "Reset"
    /\ Len(issued) = 2
    /\ issued[1].len > 0
    /\ issued[2].start > RegionEnd(issued[1])
    /\ last.op = "allocate"
    /\ last.res = "Ok"
    /\ last.len > 0

\* C6: allocate(usize::MAX, 8) returns an error and leaves the cursor alone.
C6_MaxSizeFails ==
    [][(last'.op = "allocate" /\ last'.size = USIZE_MAX /\ last'.align = 8)
        => /\ last'.res = "Err"
           /\ offset' = offset]_vars

\* allocate(usize::MAX, 8) failed with the cursor past 0, where the end
\* offset does not fit a usize
C6_Witness ==
    /\ last.op = "allocate"
    /\ last.size = USIZE_MAX
    /\ last.align = 8
    /\ last.res = "Err"
    /\ offset > 0

\* the smallest multiple of align that is >= cur, in unbounded integers
RoundUp(cur, align) == ((cur + align - 1) \div align) * align

\* C7: allocate never panics, and a call whose offset arithmetic leaves the
\* usize range (in the rounding step or in the addition of the size) returns
\* an error and leaves the cursor alone.
C7_OverflowIsError ==
    [][last'.op = "allocate"
        => /\ last'.res # "Panic"
           /\ (\/ align_up_overflows(offset, last'.align)
               \/ RoundUp(offset, last'.align) + last'.size > USIZE_MAX)
                => /\ last'.res = "Err"
                   /\ offset' = offset]_vars

\* the largest cursor met the largest alignment and the largest size
C7_Witness ==
    /\ last.op = "allocate"
    /\ last.align = Pow2(WordBits - 1)
    /\ last.size = USIZE_MAX
    /\ offset = ISIZE_MAX
    /\ last.res = "Err"

\* C8: allocate(0, 1) succeeds in every state, returns a region of length 0
\* and leaves the cursor alone; deallocate changes nothing.
C8_ZeroSize ==
    [][/\ (last'.op = "allocate" /\ last'.size = 0 /\ last'.align = 1)
            => /\ last'.res = "Ok"
               /\ last'.len = 0
               /\ offset' = offset
       /\ last'.op = "deallocate"
            => /\ last'.res = "Unit"
               /\ UNCHANGED <<capacity, base_ptr, offset, issued>>]_vars

\* the zero-length region issued by a full arena was deallocated
C8_Witness ==
    /\ capacity > 0
    /\ offset = capacity
    /\ last.op = "deallocate"
    /\ last.len = 0
    /\ last.start = capacity
    /\ last.res = "Unit"

\* C13: the cursor is always within 0..capacity, and no call but reset lowers
\* it: a failed allocate and a deallocate leave it where it was, a successful
\* allocate moves it to a value >= the old one.
C13_CursorMonotonic ==
    [][/\ offset \in 0..capacity
       /\ offset' \in 0..capacity'
       /\ last'.op # "reset" => offset' >= offset
       /\ (last'.op = "allocate" /\ last'.res # "Ok") => offset' = offset
       /\ (last'.op = "allocate" /\ last'.res = "Ok")
            => offset' = last'.start + last'.len
       /\ last'.op = "deallocate" => offset' = offset]_vars

\* a successful allocate skipped padding and moved the cursor to the end of
\* the buffer; the request before it had moved the cursor too
C13_Witness ==
    /\ last.op = "allocate"
    /\ last.res = "Ok"
    /\ last.len > 0
    /\ Len(issued) = 2
    /\ issued[1].len > 0
    /\ last.start > RegionEnd(issued[1])
    /\ offset = capacity

\* whether two regions share a byte
Overlap(r, q) ==
    /\ r.len > 0
    /\ q.len > 0
    /\ r.start < RegionEnd(q)
    /\ q.start < RegionEnd(r)

\* C14: deallocate and dealloc change nothing of the arena, whatever region
\* they are given: the cursor stays and the region stays issued, so that no
\* allocate before the next reset returns a region that shares a byte with a
\* region issued since the last reset, deallocated or not; the allocate that
\* follows a deallocate or dealloc starts at or behind the end of the region
\* given back.
C14_DeallocateIsNoOp ==
    [][/\ last'.op \in {"deallocate", "dealloc"}
            => /\ UNCHANGED <<capacity, base_ptr, offset, issued, fresh_offset>>
               /\ \E i \in 1..Len(issued') :
                    issued'[i] = [start |-> last'.start, len |-> last'.len]
       /\ (last'.op = "allocate" /\ last'.res = "Ok")
            => \A i \in 1..Len(issued) :
                 ~Overlap(issued[i], [start |-> last'.start, len |-> last'.len])
       /\ (last.op \in {"deallocate", "dealloc"}
           /\ last'.op = "allocate" /\ last'.res = "Ok")
            => /\ last'.start >= last.start + last.len
               /\ last'.start >= offset]_vars

\* the first of two regions of at least one byte was given back through
\* GlobalAlloc::dealloc, and the cursor is still behind both
C14_Witness ==
    /\ last.op = "dealloc"
    /\ last.len > 0
    /\ Len(issued) = 2
    /\ issued[1] = [start |-> last.start, len |-> last.len]
    /\ issued[2].len > 0
    /\ offset = RegionEnd(issued[2])
    /\ offset < capacity

\* C15: reset stores 0 in the cursor whatever came before it, a failed
\* allocate included, and the allocate that follows it succeeds at offset 0
\* with the length asked for, for every alignment and every size up to the
\* capacity; so does the request that failed right before the reset, when it
\* asked for no more than the capacity.
C15_ResetRecovers ==
    [][/\ last'.op = "reset" => offset' = 0
       /\ (last.op = "reset" /\ last'.op = "allocate"
           /\ last'.size <= capacity)
            => /\ last'.res = "Ok"
               /\ last'.start = 0
               /\ last'.len = last'.size
               /\ offset' = last'.size
       /\ (last.op = "reset" /\ last.res = "Err" /\ last.size <= capacity
           /\ last'.op = "allocate"
           /\ last'.size = last.size /\ last'.align = last.align)
            => last'.res = "Ok"]_vars

\* reset was called on an arena on which allocate(1, 1) had just failed for
\* lack of space
C15_Witness ==
    /\ last.op = "reset"
    /\ last.res = "Err"
    /\ last.size = 1
    /\ last.align = 1
    /\ capacity > 0
    /\ offset = 0
    /\ issued = << >>

\* C16: the length of the buffer, which capacity() returns, is the byte count
\* given to new, and no allocate, deallocate or reset changes it.
C16_CapacityFixed ==
    [][/\ last.op = "new" => capacity = last.size
       /\ capacity' = capacity]_vars

\* after a reset, an arena of at least two bytes issued its whole buffer in
\* one region
C16_Witness ==
    /\ hist = "Reset"
    /\ capacity >= 2
    /\ last.op = "allocate"
    /\ last.res = "Ok"
    /\ last.size = capacity
    /\ offset = capacity

\* C21: allocate(size, align) at cursor c in a buffer of C bytes succeeds
\* exactly when RoundUp(c, align) + size <= C, computed in unbounded integers;
\* the region then starts at offset RoundUp(c, align), is size bytes long, and
\* the cursor becomes RoundUp(c, align) + size; otherwise the call returns an
\* error, a request that does not fit being the only one that fails.
C21_ExactSuccess ==
    [][last'.op = "allocate"
        => LET aligned == RoundUp(offset, last'.align)
               fits == aligned + last'.size <= capacity
           IN  /\ last'.res = "Ok" <=> fits
               /\ ~fits => last'.res = "Err"
               /\ fits => /\ last'.start = aligned
                          /\ last'.len = last'.size
                          /\ last'.ptr = base_ptr + aligned
                          /\ offset' = aligned + last'.size]_vars

\* a request failed that the bytes behind the cursor would hold, were it not
\* for the padding its alignment asks for
C21_Witness ==
    /\ last.op = "allocate"
    /\ last.res = "Err"
    /\ last.size >= 1
    /\ offset + last.size <= capacity
    /\ RoundUp(offset, last.align) + last.size > capacity

\* whether allocate(size, align) fails at cursor `cur`, in either build
Fails(cur, size, align) ==
    \A overflow_checks \in BOOLEAN :
        allocate(cur, capacity, size, align, overflow_checks).res # "Ok"

\* C23: the request of a failed allocate fails at every cursor from the
\* current one to the capacity, and allocate and deallocate leave the cursor
\* in that range and the capacity as it is: the request keeps failing after
\* any sequence of such calls (the very next call included), and only
\* reset, which lowers the cursor, lets it succeed again.
C23_StickyExhaustion ==
    [][/\ last'.op \in {"allocate", "deallocate"}
            => /\ offset' \in offset..capacity
               /\ capacity' = capacity
       /\ (last'.op = "allocate" /\ last'.res = "Err")
            => \A cur \in offset'..capacity' :
                 Fails(cur, last'.size, last'.align)
       /\ (/\ last.op = "allocate" /\ last.res = "Err"
           /\ last'.op = "allocate"
           /\ last'.size = last.size /\ last'.align = last.align)
            => last'.res = "Err"]_vars

\* a request for one byte that a reset arena would serve failed behind two
\* regions issued since the reset
C23_Witness ==
    /\ hist = "Reset"
    /\ last.op = "allocate"
    /\ last.res = "Err"
    /\ last.size = 1
    /\ capacity >= 2
    /\ Len(issued) = 2
    /\ issued[2].len > 0

---------------------------------------------------------------------------
(* Properties of CAllocator and RawCAllocator *)

\* C9: allocate(0, 1) succeeds and returns a zero-length region, whatever
\* the primitive answers a zero-size request with short of reporting a
\* failure status.
C9_ZeroSizeSucceeds ==
    (/\ hlast.op = "allocate"
     /\ hlast.size = 0
     /\ hlast.align = 1
     /\ hlast.events[1].status = 0)
        => /\ hlast.res = "Ok"
           /\ hlast.len = 0

\* C10: a realloc that returns a pointer returns a block that was not
\* allocated before the call, other than the old one, of new_size bytes, whose
\* first min(old_size, new_size) bytes are the old block's; it frees the old
\* block once, after the copy, and touches no other block.
C10_ReallocMoves ==
    [][(hlast'.op = "realloc" /\ hlast'.ret # NULL)
        => LET old_ptr == hlast'.ptr
               new_ptr == hlast'.ret
               events == hlast'.events
           IN  /\ new_ptr # old_ptr
               /\ heap[old_ptr].live
               /\ ~heap[new_ptr].live
               /\ heap'[new_ptr].live
               /\ heap'[new_ptr].size = hlast'.size
               /\ \A i \in 1..Min(heap[old_ptr].size, hlast'.size) :
                    heap'[new_ptr].data[i] = heap[old_ptr].data[i]
               /\ ~heap'[old_ptr].live
               /\ \A p \in HeapPtrs \ {old_ptr, new_ptr} : heap'[p] = heap[p]
               /\ Len(events) = 3
               /\ events[2].call = "copy_nonoverlapping"
               /\ events[3] = [call |-> "free", ptr |-> old_ptr]
               /\ Cardinality({ i \in 1..Len(events) :
                                  events[i].call = "free" }) = 1]_vars

\* a block the caller had filled was grown: its bytes came along, the rest of
\* the new block is not initialized
C10_Witness ==
    /\ hlast.op = "realloc"
    /\ hlast.ret # NULL
    /\ heap[hlast.ret].size = MaxBlockSize
    /\ heap[hlast.ret].data[1] = 1
    /\ heap[hlast.ret].data[MaxBlockSize] = Uninit
    /\ ~heap[hlast.ptr].live

\* the calls of free among the calls made by the last operation
FreeCalls(events) ==
    { i \in 1..Len(events) : events[i].call = "free" }

\* C11: a realloc whose new allocation fails returns null, frees nothing and
\* copies nothing: the old block is still allocated and every block of the
\* heap, the old one included, holds the bytes it held before the call.
C11_FailedReallocKeepsOld ==
    [][(hlast'.op = "realloc" /\ hlast'.events[1].ptr = NULL)
        => /\ hlast'.ret = NULL
           /\ heap' = heap
           /\ heap'[hlast'.ptr].live
           /\ Len(hlast'.events) = 1]_vars

\* a realloc of a block the caller had filled failed; the block still holds
\* what the caller wrote
C11_Witness ==
    /\ hlast.op = "realloc"
    /\ hlast.ret = NULL
    /\ heap[hlast.ptr].live
    /\ heap[hlast.ptr].size = MaxBlockSize
    /\ heap[hlast.ptr].data[MaxBlockSize] = MaxBlockSize

\* C12: each operation calls free at most once and only on a block that is
\* allocated when the operation starts and that the caller passed in: dealloc
\* and deallocate free the block passed, a realloc that returns a pointer
\* frees the old block and nothing else, and a failed realloc, alloc,
\* alloc_zeroed and allocate free nothing.
C12_FreeOncePerBlock ==
    [][hlast' # hlast =>
        LET events == hlast'.events
            frees == FreeCalls(events)
        IN  /\ Cardinality(frees) <= 1
            /\ \A i \in frees :
                 /\ events[i].ptr = hlast'.ptr
                 /\ heap[events[i].ptr].live
                 /\ ~heap'[events[i].ptr].live
            /\ hlast'.op \in {"dealloc", "deallocate"}
                 => Cardinality(frees) = 1
            /\ hlast'.op = "realloc"
                 => Cardinality(frees) = (IF hlast'.ret = NULL THEN 0 ELSE 1)
            /\ hlast'.op \in {"alloc", "alloc_zeroed", "allocate", "fill"}
                 => frees = { }
            /\ \A p \in HeapPtrs :
                 (heap[p].live /\ ~heap'[p].live)
                    => \E i \in frees : events[i].ptr = p]_vars

\* realloc moved a block to a larger one: the one call of free was for the
\* old block, and the new block is the only one allocated
C12_Witness ==
    /\ hlast.op = "realloc"
    /\ hlast.ret # NULL
    /\ Cardinality(FreeCalls(hlast.events)) = 1
    /\ hlast.events[3] = [call |-> "free", ptr |-> hlast.ptr]
    /\ ~heap[hlast.ptr].live
    /\ heap[hlast.ret].live
    /\ heap[hlast.ret].size = MaxBlockSize
    /\ { p \in HeapPtrs : heap[p].live } = {hlast.ret}

\* C17: an alloc_zeroed that returns a pointer returns a block of
\* layout.size() bytes that are all zero and touches no other block; one
\* whose allocation fails returns null and leaves the heap as it was.
C17_AllocZeroed ==
    [][hlast'.op = "alloc_zeroed"
        => LET p == hlast'.ret
           IN  /\ p # NULL
                    => /\ ~heap[p].live
                       /\ heap'[p].live
                       /\ heap'[p].size = hlast'.size
                       /\ \A i \in 1..hlast'.size : heap'[p].data[i] = 0
                       /\ \A q \in HeapPtrs \ {p} : heap'[q] = heap[q]
                       /\ hlast'.events[2] =
                            [call |-> "write_bytes", ptr |-> p,
                             count |-> hlast'.size]
               /\ p = NULL
                    => /\ heap' = heap
                       /\ Len(hlast'.events) = 1]_vars

\* alloc_zeroed returned a block of the largest size, every byte of it zero
C17_Witness ==
    /\ hlast.op = "alloc_zeroed"
    /\ hlast.ret # NULL
    /\ hlast.size = MaxBlockSize
    /\ heap[hlast.ret].data = [i \in 1..MaxBlockSize |-> 0]

\* C18: the address RawCAllocator returns from allocate, alloc, alloc_zeroed
\* and realloc is a multiple of the alignment of the layout, for every
\* alignment, malloc giving its blocks its default alignment only.
C18_RawAligned ==
    (/\ which = "RawCAllocator"
     /\ hlast.op \in {"allocate", "alloc", "alloc_zeroed", "realloc"}
     /\ hlast.ret # NULL)
        => hlast.ret % hlast.align = 0

\* C19: CAllocator asks the aligned-allocation primitive of the build for
\* exactly layout.size() bytes (new_size in realloc) at the alignment
\* max(layout.align(), size_of::<usize>()); the primitive honouring that
\* alignment, the address returned is a multiple of layout.align() and of
\* size_of::<usize>(), and the region allocate returns is layout.size() long.
C19_CRequest ==
    (/\ which = "CAllocator"
     /\ hlast.op \in {"allocate", "alloc", "alloc_zeroed", "realloc"})
        => LET request == hlast.events[1]
           IN  /\ request.call = IF target = "posix" THEN "posix_memalign"
                                 ELSE "memalign"
               /\ request.size = hlast.size
               /\ request.alignment = IF hlast.align >= SizeOfUsize
                                      THEN hlast.align ELSE SizeOfUsize
               /\ hlast.ret # NULL
                    => /\ hlast.ret % hlast.align = 0
                       /\ hlast.ret % SizeOfUsize = 0
                       /\ heap[hlast.ret].live
                       /\ heap[hlast.ret].size = hlast.size
               /\ (hlast.op = "allocate" /\ hlast.res = "Ok")
                    => hlast.len = hlast.size

\* realloc on CAllocator with an alignment below the pointer size moved a
\* block to a pointer-aligned address
C19_Witness ==
    /\ which = "CAllocator"
    /\ hlast.op = "realloc"
    /\ hlast.align < SizeOfUsize
    /\ hlast.ret # NULL
    /\ hlast.events[1].alignment = SizeOfUsize
    /\ hlast.ret % SizeOfUsize = 0

---------------------------------------------------------------------------
(* Properties of ArenaAllocator under concurrent calls *)

\* C20: while no call has started inside another thread's allocate, the
\* regions issued since the last reset share no byte and a reset is never
\* undone; regions that share a byte and a cursor left above 0 by a write of
\* what was read before a reset arise only where calls interleaved.
C20_SerializedIsSafe ==
    ~raced.interleaved
        => /\ \A i, j \in 1..Len(issued) :
                i < j => ~Overlap(issued[i], issued[j])
           /\ \A i \in 1..Len(issued) : RegionEnd(issued[i]) <= offset
           /\ ~raced.reset_lost
           /\ Cardinality({ t \in Threads : threads[t].pc = "checked" }) <= 1

\* both threads read the same cursor and both calls of allocate succeeded:
\* the last two regions issued are the same bytes; earlier on, a thread wrote
\* the cursor it had computed before the other thread's reset
C20_Witness ==
    /\ raced.interleaved
    /\ raced.reset_lost
    /\ Len(issued) = 2
    /\ issued[1].len > 0
    /\ issued[1] = issued[2]
    /\ \A t \in Threads : threads[t].pc = "idle"

---------------------------------------------------------------------------
(* Properties of the GlobalAlloc adapters *)

\* C22: GlobalAlloc::alloc does what Allocator::allocate does.  On the arena
\* it returns null exactly when allocate fails at the same cursor, else the
\* address of the region allocate returns, and leaves the cursor allocate
\* leaves.  On CAllocator both make the same request of the primitive (the
\* size, at max(align, size_of::<usize>())), and a nonzero status or a null
\* pointer from the primitive comes out as null or Err, any other answer as
\* the pointer the primitive gave.
C22_AdaptersAgree ==
    [][/\ last'.op = "alloc"
            => \A r \in { allocate(offset, capacity, last'.size, last'.align,
                                   overflow_checks) :
                          overflow_checks \in BOOLEAN } :
                 /\ r.res \in {"Ok", "Err"}
                 /\ last'.ptr = NULL <=> r.res = "Err"
                 /\ r.res = "Ok" => /\ last'.ptr = base_ptr + r.start
                                    /\ last'.len = r.len
                 /\ offset' = r.offset
       /\ (which' = "CAllocator" /\ hlast' # hlast
           /\ hlast'.op \in {"alloc", "allocate"})
            => LET a == hlast'.events[1]
                   failure == a.status # 0 \/ a.ptr = NULL
               IN  /\ a.call = IF target = "posix" THEN "posix_memalign"
                                ELSE "memalign"
                   /\ a.size = hlast'.size
                   /\ a.alignment = IF hlast'.align >= SizeOfUsize
                                    THEN hlast'.align ELSE SizeOfUsize
                   /\ failure
                        => /\ hlast'.ret = NULL
                           /\ hlast'.res \in {"Null", "Err"}
                           /\ heap' = heap
                   /\ ~failure
                        => /\ hlast'.ret = a.ptr
                           /\ hlast'.res \in {"Ptr", "Ok"}
                           /\ heap'[a.ptr].live
                           /\ heap'[a.ptr].size = hlast'.size]_vars

\* alloc returned null on an arena that has issued a region and has bytes
\* left, too few for the request
C22_Witness ==
    /\ last.op = "alloc"
    /\ last.ptr = NULL
    /\ last.size >= 1
    /\ last.size <= capacity
    /\ Len(issued) >= 1
    /\ 0 < offset
    /\ offset < capacity

====
